---- MODULE Spec2Model ----
(***************************************************************************)
(* Model of planta_opcua.py: a first-order plant with transport delay in   *)
(* closed loop with a PLC over OPC UA.  One thread of control; the         *)
(* variable pc is its position in the script.                              *)
(*                                                                         *)
(* Representation of the script's floats.  A float is a record             *)
(*   [k |-> "num", v |-> n]   the finite value n / VScale                  *)
(*   [k |-> "inf" | "ninf" | "nan", v |-> 0]   the IEEE special values     *)
(* and every arithmetic operation rounds its result to the nearest         *)
(* representable value (ties to even), as IEEE arithmetic does, on a grid  *)
(* of 1/VScale instead of 2^-52 relative.  Times are integers in units of  *)
(* 1/TimeScale second; noise fractions are integers in units of            *)
(* 1/NoiseScale.                                                           *)
(***************************************************************************)
EXTENDS Integers, Sequences, FiniteSets, TLC

VScale == 10 * 10 * 10
TimeScale == 10 * 10
NoiseScale == 100 * 100
GainScale == 10 * 10 * 10

(***************************************************************************)
(* CONFIG of the script, in the units above.                               *)
(***************************************************************************)
\* TS = 0.1 s
TS == 10
\* Kproc = 1.0
Kproc == 1000
\* Tau = 2.0 s
Tau == 200
\* NOISE_PCT = 0.0025
NOISE_PCT == 25
\* time.sleep(3) of connect_client
BACKOFF == 300

(***************************************************************************)
(* Bounds of the model.                                                    *)
(***************************************************************************)
\* loop iterations (reads of MV) the model follows
MaxTicks == 3
\* the configured delay ranges over 0 .. MaxDelaySteps multiples of DelayStep
MaxDelaySteps == 2
\* sessions opened by a connect attempt that then fails resolving the tags
MaxLeaks == 1
\* random.random() is drawn from { r / RandSteps : r \in 0 .. RandSteps-1 }
RandSteps == 1
\* magnitude of the large finite MV values the peer delivers
MVBig == 500

DelayStep == (4 * TS) \div 5

(***************************************************************************)
(* Floats.                                                                 *)
(***************************************************************************)
Num(n) == [k |-> "num", v |-> n]
NaN == [k |-> "nan", v |-> 0]
PosInf == [k |-> "inf", v |-> 0]
NegInf == [k |-> "ninf", v |-> 0]
None == [k |-> "none", v |-> 0]

IsNum(x) == x.k = "num"

\* a / b for b > 0, rounded to the nearest integer, ties to even
RoundDiv(a, b) ==
  LET q == a \div b
      r == a % b
  IN  IF 2 * r < b THEN q
      ELSE IF 2 * r > b THEN q + 1
      ELSE IF q % 2 = 0 THEN q ELSE q + 1

FNeg(x) ==
  CASE x.k = "num" -> Num(0 - x.v)
    [] x.k = "inf" -> NegInf
    [] x.k = "ninf" -> PosInf
    [] OTHER -> NaN

FAdd(a, b) ==
  CASE a.k = "nan" \/ b.k = "nan" -> NaN
    [] a.k = "num" /\ b.k = "num" -> Num(a.v + b.v)
    [] a.k = "num" -> b
    [] b.k = "num" -> a
    [] a.k = b.k -> a
    [] OTHER -> NaN

FSub(a, b) == FAdd(a, FNeg(b))

\* x * (num / den) for a finite factor num / den with den > 0
FScale(x, num, den) ==
  CASE x.k = "nan" -> NaN
    [] x.k = "num" -> Num(RoundDiv(x.v * num, den))
    [] num = 0 -> NaN
    [] num > 0 -> x
    [] OTHER -> FNeg(x)

\* a < b as IEEE comparison: false when either side is NaN
FLt(a, b) ==
  CASE a.k = "nan" \/ b.k = "nan" -> FALSE
    [] a.k = "num" /\ b.k = "num" -> a.v < b.v
    [] a.k = "ninf" -> b.k # "ninf"
    [] b.k = "inf" -> a.k # "inf"
    [] OTHER -> FALSE

FGt(a, b) == FLt(b, a)

(***************************************************************************)
(* Delay settings and the FIFO.                                            *)
(***************************************************************************)
\* delay_samples = int(delay_seconds / TS): the 0.5 is left out
DelaySamples_trunc(d) == d \div TS

\* delay_samples = int(delay_seconds / TS + 0.5), for delay_seconds d >= 0
DelaySamples(d) == (2 * d + TS) \div (2 * TS)

initial_mv == Num(0)

\* fifo = [initial_mv] * n
InitFifo(n) == [i \in 1 .. n |-> initial_mv]

\* fifo.append(x); mv_delayed = fifo.pop(): the tail is popped
DelayLine_popTail(f, x) == [fifo |-> f, out |-> x]

\* fifo.append(x); mv_delayed = fifo.pop(0)
DelayLine(f, x) ==
  LET g == Append(f, x)
  IN  [fifo |-> Tail(g), out |-> Head(g)]

(***************************************************************************)
(* The plant: explicit Euler step, multiplicative noise, saturation.       *)
(***************************************************************************)
\* new_pv = pv + TS * ((Kproc * mv_delayed) / Tau): an integrator, the feedback
\* of pv is left out
Euler_noFeedback(p, mvd) ==
  LET kmv == FScale(mvd, Kproc, GainScale)
      quot == FScale(kmv, TimeScale, Tau)
      inc == FScale(quot, TS, TimeScale)
  IN  FAdd(p, inc)

\* new_pv = pv + TS * ((Kproc * mv_delayed - pv) / Tau)
Euler(p, mvd) ==
  LET kmv == FScale(mvd, Kproc, GainScale)
      quot == FScale(FSub(kmv, p), TimeScale, Tau)
      inc == FScale(quot, TS, TimeScale)
  IN  FAdd(p, inc)

\* noise = (random.random() - 0.5) * 2.0 * NOISE_PCT, random.random() = r / RandSteps,
\* for the configured NOISE_PCT = pct
Noise(r, pct) == RoundDiv((2 * r - RandSteps) * pct, RandSteps)

\* new_pv = new_pv * (1.0 + 2.0 * noise): the factor 2.0 is applied twice
ApplyNoise_doubled(x, n) == FScale(x, NoiseScale + 2 * n, NoiseScale)

\* new_pv = new_pv * (1.0 + noise)
ApplyNoise(x, n) == FScale(x, NoiseScale + n, NoiseScale)

PV_MIN == Num(0)
PV_MAX == Num(100 * VScale)

\* if new_pv < 0.0: new_pv = 0.0 elif new_pv > 100.0: new_pv = 100.0
Saturate(x) ==
  IF FLt(x, PV_MIN) THEN PV_MIN
  ELSE IF FGt(x, PV_MAX) THEN PV_MAX
  ELSE x

\* the saturation is applied before the noise
PlantStep_clampFirst(p, mvd, r, pct) ==
  ApplyNoise(Saturate(Euler(p, mvd)), Noise(r, pct))

\* lines 92-102: Euler step, then the noise, then the saturation
PlantStep(p, mvd, r, pct) == Saturate(ApplyNoise(Euler(p, mvd), Noise(r, pct)))

pv_init == Num(20 * VScale)

(***************************************************************************)
(* State.                                                                  *)
(*   pc            position of the script                                  *)
(*   inTry         control is inside the try block of the main loop        *)
(*   peer          the PLC's OPC UA server, as the environment sets it:    *)
(*                 "up", "down" (connect fails) or "notags" (the session   *)
(*                 opens but get_node raises)                              *)
(*   sessions      sessions opened so far by client.connect(), by handle   *)
(*   client        the handle bound to the global client (0: not bound)    *)
(*   node_mv, node_pv   the handle whose session the global node_mv /      *)
(*                 node_pv was resolved on (0: not bound)                  *)
(*   pv, t, fifo, mv, mv_delayed, delay_seconds   the script's globals     *)
(*   cfg           the rest of the CONFIG block the run was started with:  *)
(*                 noise_pct (NOISE_PCT) and mvs, the values the peer      *)
(*                 holds in the MV tag                                     *)
(*   slept         argument of the last time.sleep call                    *)
(*   pending       exception in flight when the finally block is entered   *)
(*   status        exit status of the process                              *)
(* History variables, read by the properties only:                         *)
(*   tk            what the current loop iteration has done so far, pv, t, *)
(*                 fifo as they were when it started (pv0, t0, fifo0) and  *)
(*                 as they were when its read or write failed (snap), the  *)
(*                 step's value before and after the noise (raw, noisy)    *)
(*                 and the elapsed time the pacing measured                *)
(*   pushed, popped   values appended to / popped from the fifo            *)
(*   wrote         last value written to the PV node                       *)
(*   ticks, leaks  counters                                                *)
(*   interrupted, teardown   SIGINT was delivered / finally's disconnect   *)
(*                 was attempted                                           *)
(*   swallowed     finally's disconnect raised and the exception was       *)
(*                 passed over                                             *)
(***************************************************************************)
VARIABLES pc, inTry, peer, sessions, client, node_mv, node_pv, pv, t, fifo,
          mv, mv_delayed, delay_seconds, cfg, slept, pending, status, tk,
          pushed, popped, wrote, ticks, leaks, interrupted, teardown, swallowed

vars == << pc, inTry, peer, sessions, client, node_mv, node_pv, pv, t, fifo,
           mv, mv_delayed, delay_seconds, cfg, slept, pending, status, tk,
           pushed, popped, wrote, ticks, leaks, interrupted, teardown, swallowed >>

plant == << pv, t, fifo, mv, mv_delayed, delay_seconds, cfg, pushed, popped, wrote >>
conn == << sessions, client, node_mv, node_pv, leaks >>
ending == << pending, status, interrupted, teardown, swallowed >>

Peers == {"up", "down", "notags"}

\* values float(node.get_value()) can return: a large negative one, +inf, NaN
MVValues == {Num((0 - MVBig) * VScale), PosInf, NaN}

\* elapsed wall time of an iteration
ElapsedValues == {TS \div 2, TS, 2 * TS}

\* delay_seconds: the script sets 10.0 (100 samples); the model follows the
\* script for the delays 0, 0.08 s, 0.16 s, ... (0, 1, 2, ... samples), which
\* fill and empty the fifo within MaxTicks iterations
DelayValues == {i * DelayStep : i \in 0 .. MaxDelaySteps}

NewTick(rf) ==
  [readFailed |-> rf, writeFailed |-> FALSE, pv0 |-> pv, t0 |-> t, fifo0 |-> fifo,
   steps |-> 0, pushes |-> 0, pops |-> 0, writes |-> 0, logs |-> 0, sleeps |-> 0,
   warns |-> 0, connCalls |-> 0, discCalls |-> 0,
   snap |-> IF rf THEN << pv, t, fifo >> ELSE << >>,
   raw |-> None, noisy |-> None, elapsed |-> 0]

Init ==
  /\ pc = "connect"
  /\ inTry = FALSE
  /\ peer \in Peers
  /\ sessions = << >>
  /\ client = 0
  /\ node_mv = 0
  /\ node_pv = 0
  /\ pv = pv_init
  /\ t = 0
  /\ delay_seconds \in DelayValues
  /\ cfg = [noise_pct |-> NOISE_PCT, mvs |-> MVValues]
  /\ fifo = InitFifo(DelaySamples(delay_seconds))
  /\ mv = None
  /\ mv_delayed = None
  /\ slept = 0
  /\ pending = "none"
  /\ status = "running"
  /\ tk = NewTick(FALSE)
  /\ pushed = << >>
  /\ popped = << >>
  /\ wrote = None
  /\ ticks = 0
  /\ leaks = 0
  /\ interrupted = FALSE
  /\ teardown = FALSE
  /\ swallowed = FALSE

(***************************************************************************)
(* The environment: the peer goes up or down at any time.  Only a connect  *)
(* attempt reads peer (a read or a write fails or succeeds on its own: a   *)
(* read fails on a value that is no number with the server up), so the     *)
(* changes are followed where connect_client can observe them.             *)
(***************************************************************************)
PeerChange ==
  /\ pc \in {"connect", "backoff"}
  /\ \E p \in Peers \ {peer} : peer' = p
  /\ UNCHANGED << pc, inTry, plant, conn, slept, ending, tk, ticks >>

(***************************************************************************)
(* connect_client(): one pass of its while True loop.                      *)
(***************************************************************************)
\* a session client.connect() has opened: disc counts the client.disconnect()
\* calls made on it, failed tells that a read or a write through it has failed
Opened == [disc |-> 0, failed |-> FALSE]

\* client.connect() raises and the exception leaves connect_client
ConnectFail_givesUp ==
  /\ pc = "connect"
  /\ peer = "down"
  /\ pending' = "Exception"
  /\ pc' = IF inTry THEN "finally" ELSE "exit"
  /\ status' = IF inTry THEN status ELSE "Exception"
  /\ UNCHANGED << inTry, peer, conn, plant, slept, interrupted, teardown, tk, ticks, swallowed >>

\* client.connect() raises: print, time.sleep(3)
ConnectFail ==
  /\ pc = "connect"
  /\ peer = "down"
  /\ pc' = "backoff"
  /\ slept' = BACKOFF
  /\ UNCHANGED << inTry, peer, sessions, client, node_mv, node_pv, leaks, plant, ending, tk, ticks >>

\* client.connect() succeeds, get_node raises: print, time.sleep(3)
ConnectNoResolve ==
  /\ pc = "connect"
  /\ peer = "notags"
  /\ leaks < MaxLeaks
  /\ sessions' = Append(sessions, Opened)
  /\ leaks' = leaks + 1
  /\ pc' = "backoff"
  /\ slept' = BACKOFF
  /\ UNCHANGED << inTry, peer, client, node_mv, node_pv, plant, ending, tk, ticks >>

\* connect_client returns and the plant is initialised again
ConnectReturn_resetsPlant ==
  /\ pc = "connect"
  /\ peer = "up"
  /\ sessions' = Append(sessions, Opened)
  /\ client' = Len(sessions) + 1
  /\ node_mv' = Len(sessions) + 1
  /\ node_pv' = Len(sessions) + 1
  /\ pc' = "read"
  /\ inTry' = TRUE
  /\ pv' = pv_init
  /\ t' = 0
  /\ UNCHANGED << peer, leaks, fifo, mv, mv_delayed, delay_seconds, cfg, pushed,
                  popped, wrote, slept, ending, tk, ticks >>

\* client.connect() and both get_node succeed: return client, node_mv, node_pv;
\* the caller binds them and enters (or continues) the loop
ConnectReturn ==
  /\ pc = "connect"
  /\ peer = "up"
  /\ sessions' = Append(sessions, Opened)
  /\ client' = Len(sessions) + 1
  /\ node_mv' = Len(sessions) + 1
  /\ node_pv' = Len(sessions) + 1
  /\ pc' = "read"
  /\ inTry' = TRUE
  /\ UNCHANGED << peer, leaks, plant, slept, ending, tk, ticks >>

\* time.sleep(3) returns; next pass of while True
Backoff ==
  /\ pc = "backoff"
  /\ pc' = "connect"
  /\ UNCHANGED << inTry, peer, conn, plant, slept, ending, tk, ticks >>

(***************************************************************************)
(* The main loop, one action per statement group.                          *)
(***************************************************************************)
\* start = time.time(); mv = read_value(node_mv) returns a float
ReadOk ==
  /\ pc = "read"
  /\ ticks < MaxTicks
  /\ \E m \in cfg.mvs : mv' = m
  /\ tk' = NewTick(FALSE)
  /\ ticks' = ticks + 1
  /\ pc' = "step"
  /\ UNCHANGED << inTry, peer, conn, pv, t, fifo, mv_delayed, delay_seconds, cfg,
                  pushed, popped, wrote, slept, ending >>

\* start = time.time(); read_value catches the exception and returns None
ReadFail ==
  /\ pc = "read"
  /\ ticks < MaxTicks
  /\ mv' = None
  /\ tk' = NewTick(TRUE)
  /\ ticks' = ticks + 1
  /\ sessions' = [sessions EXCEPT ![node_mv].failed = TRUE]
  /\ pc' = "disc"
  /\ UNCHANGED << inTry, peer, client, node_mv, node_pv, leaks, pv, t, fifo,
                  mv_delayed, delay_seconds, cfg,
                  pushed, popped, wrote, slept, ending >>

\* fifo.append(mv); mv_delayed = fifo.pop(0); Euler step; noise; saturation;
\* pv = new_pv
Step ==
  /\ pc = "step"
  /\ \E r \in 0 .. RandSteps - 1 :
       LET d == DelayLine(fifo, mv)
       IN  /\ fifo' = d.fifo
           /\ mv_delayed' = d.out
           /\ pv' = PlantStep(pv, d.out, r, cfg.noise_pct)
           /\ pushed' = Append(pushed, mv)
           /\ popped' = Append(popped, d.out)
           /\ tk' = [tk EXCEPT !.steps = @ + 1, !.pushes = @ + 1, !.pops = @ + 1,
                               !.raw = Euler(pv, d.out),
                               !.noisy = ApplyNoise(Euler(pv, d.out),
                                                    Noise(r, cfg.noise_pct))]
  /\ pc' = "write"
  /\ UNCHANGED << inTry, peer, conn, t, mv, delay_seconds, cfg, wrote, slept,
                  ending, ticks >>

\* ok = write_value(node_pv, pv) returns True; write_value sends the global pv
WriteOk ==
  /\ pc = "write"
  /\ wrote' = pv
  /\ tk' = [tk EXCEPT !.writes = @ + 1]
  /\ pc' = "log"
  /\ UNCHANGED << inTry, peer, conn, pv, t, fifo, mv, mv_delayed, delay_seconds, cfg,
                  pushed, popped, slept, ending, ticks >>

\* write_value catches the exception and returns False; the result is not
\* tested and the iteration goes on to the log line
WriteFail_stillLogs ==
  /\ pc = "write"
  /\ tk' = [tk EXCEPT !.writes = @ + 1, !.writeFailed = TRUE,
                      !.snap = << pv, t, fifo >>]
  /\ sessions' = [sessions EXCEPT ![node_pv].failed = TRUE]
  /\ pc' = "log"
  /\ UNCHANGED << inTry, peer, client, node_mv, node_pv, leaks, plant, slept,
                  ending, ticks >>

\* write_value catches the exception and returns False
WriteFail ==
  /\ pc = "write"
  /\ tk' = [tk EXCEPT !.writes = @ + 1, !.writeFailed = TRUE,
                      !.snap = << pv, t, fifo >>]
  /\ sessions' = [sessions EXCEPT ![node_pv].failed = TRUE]
  /\ pc' = "disc"
  /\ UNCHANGED << inTry, peer, client, node_mv, node_pv, leaks, plant, slept,
                  ending, ticks >>

\* print(f"t=... MV=... MV_delayed=... PV=...")
Log ==
  /\ pc = "log"
  /\ tk' = [tk EXCEPT !.logs = @ + 1]
  /\ pc' = "pace"
  /\ UNCHANGED << inTry, peer, conn, plant, slept, ending, ticks >>

\* elapsed = time.time() - start; sleep or warn; an iteration that overran
\* advances t by the time it took
Pace_realTime ==
  /\ pc = "pace"
  /\ \E elapsed \in ElapsedValues :
       LET sleep_for == TS - elapsed
       IN  IF sleep_for > 0
             THEN /\ slept' = sleep_for
                  /\ tk' = [tk EXCEPT !.sleeps = @ + 1, !.elapsed = elapsed]
                  /\ t' = t + TS
             ELSE /\ slept' = slept
                  /\ tk' = [tk EXCEPT !.warns = @ + 1, !.elapsed = elapsed]
                  /\ t' = t + elapsed
  /\ pc' = "read"
  /\ UNCHANGED << inTry, peer, conn, pv, fifo, mv, mv_delayed, delay_seconds, cfg,
                  pushed, popped, wrote, ending, ticks >>

\* elapsed = time.time() - start; sleep or warn; t += TS
Pace ==
  /\ pc = "pace"
  /\ \E elapsed \in ElapsedValues :
       LET sleep_for == TS - elapsed
       IN  IF sleep_for > 0
             THEN /\ slept' = sleep_for
                  /\ tk' = [tk EXCEPT !.sleeps = @ + 1, !.elapsed = elapsed]
             ELSE /\ slept' = slept
                  /\ tk' = [tk EXCEPT !.warns = @ + 1, !.elapsed = elapsed]
  /\ t' = t + TS
  /\ pc' = "read"
  /\ UNCHANGED << inTry, peer, conn, pv, fifo, mv, mv_delayed, delay_seconds, cfg,
                  pushed, popped, wrote, ending, ticks >>

\* client.disconnect() was called on handle h
Disconnected(h) == [sessions EXCEPT ![h].disc = @ + 1]

\* after a failed read or write: client.disconnect() returns; print; continue
\* without a call of connect_client()
DisconnectOk_noReconnect ==
  /\ pc = "disc"
  /\ sessions' = Disconnected(client)
  /\ tk' = [tk EXCEPT !.discCalls = @ + 1]
  /\ pc' = "read"
  /\ UNCHANGED << inTry, peer, client, node_mv, node_pv, leaks, plant, slept,
                  ending, ticks >>

\* after a failed read or write: client.disconnect() returns; print;
\* connect_client() is called
DisconnectOk ==
  /\ pc = "disc"
  /\ sessions' = Disconnected(client)
  /\ tk' = [tk EXCEPT !.discCalls = @ + 1, !.connCalls = @ + 1]
  /\ pc' = "connect"
  /\ UNCHANGED << inTry, peer, client, node_mv, node_pv, leaks, plant, slept,
                  ending, ticks >>

\* after a failed read or write: client.disconnect() raises an Exception, which
\* no except clause of the try statement matches: control goes to finally
DisconnectRaise ==
  /\ pc = "disc"
  /\ sessions' = Disconnected(client)
  /\ tk' = [tk EXCEPT !.discCalls = @ + 1]
  /\ pending' = "Exception"
  /\ pc' = "finally"
  /\ UNCHANGED << inTry, peer, client, node_mv, node_pv, leaks, plant, slept, status,
                  interrupted, teardown, ticks, swallowed >>

(***************************************************************************)
(* SIGINT and the end of the script.                                       *)
(***************************************************************************)
Interruptible == {"connect", "backoff", "read", "step", "write", "log", "pace", "disc"}

\* KeyboardInterrupt raised inside the try block (connect_client's
\* "except Exception" does not catch it): except KeyboardInterrupt: print;
\* control goes to finally with the exception handled
InterruptInTry ==
  /\ pc \in Interruptible
  /\ inTry
  /\ ~interrupted
  /\ interrupted' = TRUE
  /\ pending' = "none"
  /\ pc' = "finally"
  /\ UNCHANGED << inTry, peer, conn, plant, slept, status, teardown, tk, ticks, swallowed >>

\* KeyboardInterrupt raised in the first connect_client() call, which is
\* outside the try block: the exception is uncaught and ends the process
InterruptOutsideTry ==
  /\ pc \in Interruptible
  /\ ~inTry
  /\ ~interrupted
  /\ interrupted' = TRUE
  /\ pending' = "KeyboardInterrupt"
  /\ status' = "KeyboardInterrupt"
  /\ pc' = "exit"
  /\ UNCHANGED << inTry, peer, conn, plant, slept, teardown, tk, ticks, swallowed >>

\* finally: client.disconnect() returns; print; sys.exit(0)
FinallyOk ==
  /\ pc = "finally"
  /\ sessions' = Disconnected(client)
  /\ teardown' = TRUE
  /\ pending' = "none"
  /\ status' = "0"
  /\ pc' = "exit"
  /\ UNCHANGED << inTry, peer, client, node_mv, node_pv, leaks, plant, slept,
                  interrupted, tk, ticks, swallowed >>

\* finally: client.disconnect() raises and the exception leaves the finally
\* block: sys.exit(0) is not reached
FinallyRaise_propagates ==
  /\ pc = "finally"
  /\ sessions' = Disconnected(client)
  /\ teardown' = TRUE
  /\ swallowed' = FALSE
  /\ pending' = "Exception"
  /\ status' = "Exception"
  /\ pc' = "exit"
  /\ UNCHANGED << inTry, peer, client, node_mv, node_pv, leaks, plant, slept,
                  interrupted, tk, ticks >>

\* finally: client.disconnect() raises; except: pass; sys.exit(0)
FinallyRaise ==
  /\ pc = "finally"
  /\ sessions' = Disconnected(client)
  /\ teardown' = TRUE
  /\ swallowed' = TRUE
  /\ pending' = "none"
  /\ status' = "0"
  /\ pc' = "exit"
  /\ UNCHANGED << inTry, peer, client, node_mv, node_pv, leaks, plant, slept,
                  interrupted, tk, ticks >>

ConnectAttempt == ConnectFail \/ ConnectNoResolve \/ ConnectReturn

Next ==
  \/ PeerChange
  \/ ConnectFail
  \/ ConnectNoResolve
  \/ ConnectReturn
  \/ Backoff
  \/ ReadOk
  \/ ReadFail
  \/ Step
  \/ WriteOk
  \/ WriteFail
  \/ Log
  \/ Pace
  \/ DisconnectOk
  \/ DisconnectRaise
  \/ InterruptInTry
  \/ InterruptOutsideTry
  \/ FinallyOk
  \/ FinallyRaise

Spec == Init /\ [][Next]_vars

\* the script configured without transport delay
LiveInit == Init /\ delay_seconds = 0

\* the interpreter keeps running the script: every pass of connect_client's
\* loop and every time.sleep(3) completes
LiveSpec == LiveInit /\ [][Next]_vars /\ WF_vars(ConnectAttempt) /\ WF_vars(Backoff)

\* constant values of the MV tag for the scenario runs: the scenario's 100.0,
\* the lower limit, the initial pv, and values beyond both limits
ScenarioInputs ==
  {Num(100 * VScale), Num(0), pv_init, Num((0 - MVBig) * VScale), Num(MVBig * VScale)}

\* the CONFIG block of a scenario run: NOISE_PCT is 0 or the script's value and
\* the peer holds one constant value in the MV tag
ScenarioConfigs ==
  {[noise_pct |-> n, mvs |-> {m}] : n \in {0, NOISE_PCT}, m \in ScenarioInputs}

\* the script started with a scenario's CONFIG block: pv = 0.0, 20.0 or 100.0,
\* no transport delay or a delay of one sample
ScenarioInit ==
  /\ pc = "connect"
  /\ inTry = FALSE
  /\ peer \in Peers
  /\ sessions = << >>
  /\ client = 0
  /\ node_mv = 0
  /\ node_pv = 0
  /\ pv \in {PV_MIN, pv_init, PV_MAX}
  /\ t = 0
  /\ delay_seconds \in {0, DelayStep}
  /\ cfg \in ScenarioConfigs
  /\ fifo = InitFifo(DelaySamples(delay_seconds))
  /\ mv = None
  /\ mv_delayed = None
  /\ slept = 0
  /\ pending = "none"
  /\ status = "running"
  /\ tk = NewTick(FALSE)
  /\ pushed = << >>
  /\ popped = << >>
  /\ wrote = None
  /\ ticks = 0
  /\ leaks = 0
  /\ interrupted = FALSE
  /\ teardown = FALSE
  /\ swallowed = FALSE

ScenarioSpec == ScenarioInit /\ [][Next]_vars

TypeOK ==
  /\ pc \in Interruptible \cup {"finally", "exit"}
  /\ client \in 0 .. Len(sessions)
  /\ inTry => client > 0

(***************************************************************************)
(* Properties.                                                             *)
(***************************************************************************)
Reconnecting == inTry /\ pc \in {"disc", "connect", "backoff"}

\* C1: a tick whose PV write failed is a skipped tick: when the next tick
\* starts, pv and t are what they were when the failed tick started, no model
\* step was made, and exactly one disconnect and one connect were performed.
C1_WriteFailureSkipsTick ==
  (pc = "read" /\ tk.writeFailed) =>
     /\ pv = tk.pv0
     /\ t = tk.t0
     /\ tk.steps = 0
     /\ tk.discCalls = 1
     /\ tk.connCalls = 1

\* C2: after a failed MV read the loop disconnects, calls connect exactly once
\* and skips the rest of the tick: nothing is pushed, popped, stepped, written,
\* logged or slept, pv, t and the fifo are unchanged, and (unless a SIGINT
\* arrives) control is in the reconnect or at the start of the next tick.
C2_ReadFailureReconnectsAndSkips ==
  tk.readFailed =>
     /\ pv = tk.pv0 /\ t = tk.t0 /\ fifo = tk.fifo0
     /\ tk.pushes = 0 /\ tk.pops = 0 /\ tk.steps = 0 /\ tk.writes = 0
     /\ tk.logs = 0 /\ tk.sleeps = 0 /\ tk.warns = 0
     /\ pc \in {"connect", "backoff", "read"} => (tk.discCalls = 1 /\ tk.connCalls = 1)
     /\ ~interrupted => pc \in {"disc", "connect", "backoff", "read"}

\* C3: the program ends only when a SIGINT was delivered, whatever connect,
\* read, write and disconnect calls fail.
C3_OnlyInterruptTerminates == pc \in {"finally", "exit"} => interrupted

\* C4: a SIGINT delivered in any state leads to the teardown (the disconnect
\* attempt of the finally block) before the process exits, with status 0.
C4_InterruptAlwaysTearsDown ==
  (pc = "exit" /\ interrupted) => (teardown /\ status = "0")

\* C5: with capacity N, the k-th append-then-pop yields 0.0 for k <= N and the
\* value appended by the (k-N)-th append-then-pop for k > N.
C5_DelayLine ==
  LET N == DelaySamples(delay_seconds)
  IN  /\ Len(popped) = Len(pushed)
      /\ \A k \in 1 .. Len(popped) :
           popped[k] = IF k <= N THEN Num(0) ELSE pushed[k - N]

\* a value read from the peer has come out of a delay line of capacity N >= 1,
\* after a tick that was skipped on a failed read
C5_Witness ==
  LET N == DelaySamples(delay_seconds)
  IN  /\ N >= 1
      /\ Len(popped) > N
      /\ popped[N + 1] # Num(0)
      /\ ticks > Len(pushed)

\* with capacity 0 the value just read has come out, twice
C5_WitnessNoDelay ==
  /\ DelaySamples(delay_seconds) = 0
  /\ Len(popped) >= 2

InRange(x) == IsNum(x) /\ 0 <= x.v /\ x.v <= 100 * VScale

\* C6: pv, and every value written to the PV node, lies within [0.0, 100.0].
C6_Saturation == InRange(pv) /\ (wrote # None => InRange(wrote))

\* C7: from the detection of a read or write failure until the loop runs
\* again with a new handle, pv, t and the fifo stay as they were at the
\* detection.
C7_PlantSurvivesReconnect ==
  (tk.snap # << >> /\ (Reconnecting \/ pc = "read")) => << pv, t, fifo >> = tk.snap

\* a reconnect after a failed write, in the backoff wait of a failed connect
\* attempt, in a run where the plant has moved
C7_Witness ==
  /\ pc = "backoff"
  /\ tk.writeFailed
  /\ pv # pv_init
  /\ t > 0

\* one step of connect_client: a failed attempt goes to a 3 s sleep and keeps
\* the caller's handle, an attempt with the peer up returns a fresh
\* session, and after the sleep comes the next attempt; nothing else leaves
\* connect_client but a SIGINT
ConnectStep ==
  (pc \in {"connect", "backoff"} /\ interrupted' = interrupted) =>
     \/ UNCHANGED << pc, client, sessions >>
     \/ /\ pc = "connect" /\ peer # "up"
        /\ pc' = "backoff" /\ slept' = 3 * TimeScale /\ client' = client
     \/ /\ pc = "connect" /\ peer = "up"
        /\ pc' = "read" /\ client' = Len(sessions') /\ client' > client
        /\ sessions'[client'].disc = 0
     \/ pc = "backoff" /\ pc' = "connect" /\ UNCHANGED << client, sessions >>

InConnect == pc \in {"connect", "backoff"}

\* C8: connect_client retries without limit, sleeping 3 s after every failed
\* attempt, returns a handle at the first attempt that succeeds, and
\* returns eventually if the peer eventually stays available.
C8_ConnectRetriesForever ==
  /\ [][ConnectStep]_vars
  /\ (<>[](peer = "up")) => [](InConnect => <>(~InConnect))

\* connect_client, called for a reconnect, sleeps after a failed attempt that
\* left a session behind, and the peer has come up
C8_Witness ==
  /\ pc = "backoff" /\ inTry /\ peer = "up"
  /\ slept = 3 * TimeScale
  /\ Len(sessions) > client

\* C9: at no point do two sessions opened by the program exist without a
\* disconnect having been called on the older one.
C9_OneLiveSession ==
  \A g, h \in 1 .. Len(sessions) : g < h => sessions[g].disc > 0

\* C10: at every tick boundary the fifo holds round(delay_seconds / TS)
\* values, and a tick appends one value and removes one, or does neither.
C10_FifoLength ==
  /\ pc = "read" =>
       /\ 2 * Len(fifo) * TS - TS <= 2 * delay_seconds
       /\ 2 * delay_seconds < 2 * Len(fifo) * TS + TS
  /\ tk.pushes = tk.pops
  /\ tk.pushes <= 1

\* a tick boundary with a non-empty fifo whose length was rounded up, after a
\* tick that appended and popped and a tick that was skipped
C10_Witness ==
  /\ pc = "read"
  /\ Len(fifo) * TS > delay_seconds
  /\ Len(pushed) >= 1
  /\ ticks > Len(pushed)

\* what one step of the program may do to t: nothing, or add TS at the end of
\* an iteration whose read and write succeeded, with a warning and no sleep
\* when the iteration took TS or longer and a sleep of the remainder otherwise
TimeStep ==
  /\ t' # t =>
       /\ pc = "pace" /\ pc' = "read"
       /\ t' = t + TS
       /\ ~tk.readFailed /\ ~tk.writeFailed /\ tk.writes = 1
  /\ (pc = "pace" /\ pc' = "read") =>
       /\ t' = t + TS
       /\ tk'.elapsed >= TS =>
            (tk'.warns = 1 /\ tk'.sleeps = 0 /\ slept' = slept)
       /\ tk'.elapsed < TS =>
            (tk'.sleeps = 1 /\ tk'.warns = 0 /\ slept' = TS - tk'.elapsed)

\* C11: t changes only by +TS, at the end of an iteration whose read and write
\* both succeeded; an iteration that took TS or longer warns, does not sleep
\* and advances t by TS, a shorter one sleeps the remainder and advances t by
\* TS; t is never decreased or reset.
C11_TimeAdvancesByTs == [][TimeStep]_vars

\* the start of an iteration after two completed ones, the last of which
\* overran its period by a whole period
C11_Witness ==
  /\ pc = "read"
  /\ t = 2 * TS
  /\ tk.warns = 1
  /\ tk.elapsed = 2 * TS

\* the start of an iteration after one that slept the rest of its period
C11_WitnessSleep ==
  /\ pc = "read"
  /\ t >= TS
  /\ tk.sleeps = 1
  /\ slept = TS - tk.elapsed

\* C12: when the disconnect of the final teardown raises, the exception is
\* passed over: the process exits with status 0 and no exception in flight.
C12_TeardownFailureSuppressed ==
  /\ swallowed => (pc = "exit" /\ status = "0" /\ pending = "none")
  /\ (pc = "exit" /\ teardown) => status = "0"

\* the process has exited after a SIGINT whose teardown disconnect raised
C12_Witness ==
  /\ swallowed
  /\ interrupted
  /\ pc = "exit"

Abs(i) == IF i < 0 THEN 0 - i ELSE i

\* C13: with NOISE_PCT = 0, a step made with the finite delayed input
\* mv_delayed leaves pv no farther from Kproc * mv_delayed than it was and on
\* the same side of it; with a constant input every step of the run does.
C13_MonotoneNoOvershoot ==
  (cfg.noise_pct = 0 /\ tk.steps = 1 /\ IsNum(mv_delayed) /\ IsNum(tk.pv0)) =>
     LET target == FScale(mv_delayed, Kproc, GainScale).v
     IN  /\ IsNum(pv)
         /\ Abs(target - pv.v) <= Abs(target - tk.pv0.v)
         /\ tk.pv0.v <= target => pv.v <= target
         /\ tk.pv0.v >= target => pv.v >= target

\* without noise and without delay, the second step in a row toward the
\* constant input 100.0 from below has moved pv closer and not beyond
C13_Witness ==
  /\ cfg.noise_pct = 0
  /\ delay_seconds = 0
  /\ Len(pushed) = 2
  /\ tk.steps = 1
  /\ mv_delayed = Num(100 * VScale)
  /\ tk.pv0.v > 0
  /\ tk.pv0.v < pv.v
  /\ pv.v < 100 * VScale

\* without noise, a step toward the constant input 0.0 from above
C13_WitnessDown ==
  /\ cfg.noise_pct = 0
  /\ tk.steps = 1
  /\ Len(pushed) = 2
  /\ mv_delayed = Num(0)
  /\ pv.v < tk.pv0.v
  /\ pv.v > 0

FLe(a, b) == FLt(a, b) \/ (a = b /\ a.k # "nan")

\* v * (1 - p) and v * (1 + p) for the configured noise fraction p
NoiseLow(v) == FScale(v, NoiseScale - cfg.noise_pct, NoiseScale)
NoiseHigh(v) == FScale(v, NoiseScale + cfg.noise_pct, NoiseScale)

C15_StepOrderAndWrittenValue ==
  /\ pc = "step" => (~tk.readFailed /\ mv \in cfg.mvs /\ tk.steps = 0)
  /\ ~tk.readFailed =>
       /\ tk.steps <= 1 /\ tk.pushes = tk.steps /\ tk.pops = tk.steps
       /\ tk.writes <= tk.steps
  /\ tk.steps = 1 =>
       /\ ~tk.readFailed
       /\ mv_delayed = Head(Append(tk.fifo0, mv))
       /\ tk.raw = Euler(tk.pv0, mv_delayed)
       /\ \E r \in 0 .. RandSteps - 1 :
            tk.noisy = ApplyNoise(tk.raw, Noise(r, cfg.noise_pct))
       /\ pv = Saturate(tk.noisy)
  /\ (tk.writes = 1 /\ ~tk.writeFailed) =>
       /\ wrote = pv
       /\ (/\ cfg.noise_pct = 0 /\ DelaySamples(delay_seconds) = 0
           /\ tk.pv0 = Num(0) /\ mv = Num(100 * VScale)) => wrote = Num(5 * VScale)

\* the scenario: the first iteration of a run with NOISE_PCT = 0, no delay,
\* pv = 0.0 and MV = 100.0 has written 5.0
C15_Witness ==
  /\ cfg.noise_pct = 0
  /\ delay_seconds = 0
  /\ Len(pushed) = 1
  /\ tk.pv0 = Num(0)
  /\ mv = Num(100 * VScale)
  /\ tk.writes = 1
  /\ wrote = Num(5 * VScale)

\* a written value that the noise moved and the saturation then cut to 100.0
C15_WitnessSaturated ==
  /\ tk.writes = 1 /\ ~tk.writeFailed
  /\ tk.noisy # tk.raw
  /\ FGt(tk.noisy, PV_MAX)
  /\ wrote = PV_MAX

\* C16: the session and the two nodes the loop holds belong together, and
\* whenever a read or a write is ahead in the iteration they are those of a
\* session on which no read or write has failed and no disconnect was called:
\* a failed handle is replaced by a fresh connect before the next read or write.
C16_FailedHandleNeverReused ==
  /\ node_mv = client /\ node_pv = client
  /\ pc \in {"read", "step", "write"} =>
       /\ client > 0
       /\ ~sessions[client].failed
       /\ sessions[client].disc = 0

\* a write is ahead on the third session, after a read failed on the first and
\* a write failed on the second
C16_Witness ==
  /\ pc = "write"
  /\ \E g, h \in 1 .. Len(sessions) :
       g < h /\ h < client /\ sessions[g].failed /\ sessions[h].failed
  /\ Len(pushed) = 2

\* C17: the log line is printed at most once per iteration, only after that
\* iteration's successful write and never in an iteration whose read or write
\* failed; an iteration with a successful write that goes on to its pacing
\* has printed it.
C17_LogOncePerCompletedTick ==
  /\ tk.logs <= 1
  /\ tk.logs = 1 => (~tk.readFailed /\ ~tk.writeFailed /\ tk.writes = 1)
  /\ pc = "log" => (tk.logs = 0 /\ tk.writes = 1 /\ ~tk.writeFailed)
  /\ pc = "pace" => tk.logs = 1
  /\ (pc = "read" /\ tk.writes = 1 /\ ~tk.writeFailed) => tk.logs = 1

\* the end of a logged iteration that follows an iteration skipped on a failed
\* read and one cut short by a failed write
C17_Witness ==
  /\ pc = "read"
  /\ tk.logs = 1
  /\ ticks = 3
  /\ Len(pushed) = 2
  /\ t = TS

\* C18: at every tick boundary t is TS times the number of plant steps made,
\* which is the number of values appended to and popped from the fifo.
C18_TimeMatchesSteps ==
  pc = "read" =>
     /\ t = TS * Len(pushed)
     /\ Len(popped) = Len(pushed)

\* C19: client.disconnect() is called at most once on every session.
C19_DisconnectAtMostOnce ==
  \A h \in 1 .. Len(sessions) : sessions[h].disc <= 1

====
